---- MODULE Spec2Model ----
(***************************************************************************)
(* Model of tiniest_fsm::StateMachine (include/tiniestfsm.h) together with *)
(* the client machines of examples/ex1.cpp (Door), example 2 (MyFSM) and    *)
(* further clients whose handlers and enter hooks are user code calling     *)
(* back into the public API.  Calls are modelled small-step on an explicit  *)
(* call stack, so that nested (reentrant) calls are visible.                *)
(***************************************************************************)
EXTENDS Integers, Sequences, FiniteSets, TLC

VARIABLES prog, m_key, m_currentState, m_states, stack, mainPc, lastEntered,
          tplArgs, tplElem, compiled

\* the template under instantiation: its type-argument list, its Elem / State
\* argument and the outcome of its compile-time evaluation
tvars == <<tplArgs, tplElem, compiled>>

vars == <<prog, m_key, m_currentState, m_states, stack, mainPc, lastEntered, tvars>>

(***************************************************************************)
(* Bounds                                                                  *)
(***************************************************************************)
\* deepest call stack explored (frames)
MaxDepth == 5
\* most statements executed by one activation of a free handler / hook
MaxOps == 2
\* largest value an indeterminate (never written) m_currentState may hold
MaxIndeterminate == 4
\* longest type list a template is instantiated with
MaxTypes == 3

(***************************************************************************)
(* Client programs                                                         *)
(***************************************************************************)
\* s_nStates <= 4, <= 16, <= 64, <= 256: the tiers of the switch strategy
Thresholds == <<4, 16, 64, 256>>

\* state counts at both sides of every tier boundary
PadSizes == {Thresholds[i] : i \in 1..Len(Thresholds)}
            \cup {Thresholds[i] + 1 : i \in 1..Len(Thresholds)}

\* the machine of example 2 with further handlerless state classes appended
\* to its tuple, up to n states
PadName(n) == "pad" \o ToString(n)
PadProgs == {PadName(n) : n \in PadSizes}
IsPad(p) == p \in PadProgs
PadSize(p) == CHOOSE n \in PadSizes : p = PadName(n)

\* machines whose first states, events and handlers are those of example 2
Door2(p) == p = "ex2" \/ IsPad(p)

\* machines over the state classes StateA, StateB, StateC, two of which have
\* an enter hook: "gen", whose handlers and hooks are arbitrary user code,
\* and "nest", whose handlers and hooks call back into the machine in a
\* fixed way
Hooked(p) == p \in {"gen", "nest"}

Programs == {"ex1", "ex2", "gen", "nest"} \cup PadProgs

\* the two keys used by main of example 2
GoodKey == 123
BadKey == 521
Keys == {GoodKey, BadKey}

\* values of the int data member of a state class
DataVals == {0, 1}

NoEv == [type |-> "-", key |-> 0]
NoState == "-"
\* main no longer follows its script: the client is an arbitrary caller
Free == [on |-> FALSE, at |-> 0]
\* main has made its first k calls
At(k) == [on |-> TRUE, at |-> k]

\* std::tuple<States...> of each machine, in declaration order
States(p) ==
  CASE p = "ex1" -> <<"OpenState", "CloseState">>
    [] p = "ex2" -> <<"OpenState", "CloseState", "LockedState">>
    [] p = "tpl" -> tplArgs
    [] Hooked(p) -> <<"StateA", "StateB", "StateC">>
    [] IsPad(p) -> [i \in 1..PadSize(p) |->
                      IF i = 1 THEN "OpenState"
                      ELSE IF i = 2 THEN "CloseState"
                      ELSE IF i = 3 THEN "LockedState"
                      ELSE "Pad" \o ToString(i - 1)]

StateSet(p) == {States(p)[i] : i \in 1..Len(States(p))}

\* sizeof...(States)
s_nStates(p) == Len(States(p))

\* event values a client of machine p can pass to process
Events(p) ==
  CASE p = "ex1" -> {[type |-> "OpenEvent", key |-> 0], [type |-> "CloseEvent", key |-> 0]}
    [] Door2(p)  -> {[type |-> "OpenEvent", key |-> 0], [type |-> "CloseEvent", key |-> 0]}
                    \cup {[type |-> "LockEvent", key |-> k] : k \in Keys}
                    \cup {[type |-> "UnlockEvent", key |-> k] : k \in Keys}
    [] Hooked(p) -> {[type |-> "EvA", key |-> 0]}
                    \cup {[type |-> "EvB", key |-> k] : k \in Keys}

\* requires (State&& s, const Event& ev) { s.handle((FSM*)nullptr, ev); }
has_handler_v(p, State, Event) ==
  CASE p = "ex1" -> \/ State = "OpenState" /\ Event = "CloseEvent"
                    \/ State = "CloseState" /\ Event = "OpenEvent"
    [] Door2(p)  -> \/ State = "OpenState" /\ Event = "CloseEvent"
                    \/ State = "CloseState" /\ Event \in {"OpenEvent", "LockEvent"}
                    \/ State = "LockedState" /\ Event = "UnlockEvent"
    [] Hooked(p) -> \/ State = "StateA" /\ Event \in {"EvA", "EvB"}
                    \/ State = "StateB" /\ Event = "EvB"

\* requires (NewState&& s) { s.enter(fsm()); }
hasEnter(p, NewState) ==
  Hooked(p) /\ NewState \in {"StateB", "StateC"}

\* state classes that have a data member
HasData(p, State) ==
  \/ Door2(p) /\ State = "LockedState"
  \/ Hooked(p) /\ State \in {"StateA", "StateB"}

(***************************************************************************)
(* Type-list utilities                                                     *)
(***************************************************************************)
\* types the templates are instantiated with: fundamental types and classes
NonClassTypes == {"int", "bool", "double"}
ClassTypes == {"OpenState", "CloseState"}
Types == NonClassTypes \cup ClassTypes

\* std::is_class_v<T>
is_class_v(T) == T \in ClassTypes

\* std::is_same_v<T, U>
is_same_v(T, U) == T = U

\* (false || ... || std::is_same_v<Elem, List>)
elem_in_list_v(Elem, List) == \E i \in 1..Len(List) : List[i] = Elem

\* (0u + ... + std::is_same_v<Elem, List>)
RECURSIVE count_in_list_v(_, _)
count_in_list_v(Elem, List) ==
  IF List = <<>> THEN 0
  ELSE count_in_list_v(Elem, SubSeq(List, 1, Len(List) - 1))
       + (IF is_same_v(Elem, List[Len(List)]) THEN 1 ELSE 0)

\* compares only the entries next to one another
are_distinct_vAdjacent(Ts) == \A i \in 1..(Len(Ts) - 1) : Ts[i] # Ts[i + 1]

\* (true && ... && (count_in_list_v<Ts, Ts...> == 1))
are_distinct_v(Ts) == \A i \in 1..Len(Ts) : count_in_list_v(Ts[i], Ts) = 1

\* the constraint without the test for an empty pack
RequiresMaybeEmpty(Ts) ==
  /\ are_distinct_v(Ts)
  /\ \A i \in 1..Len(Ts) : is_class_v(Ts[i])

\* requires (are_distinct_v<States...>
\*           && std::conjunction_v<std::is_class<States>...>
\*           && (sizeof...(States) > 0))
Requires(Ts) ==
  /\ are_distinct_v(Ts)
  /\ \A i \in 1..Len(Ts) : is_class_v(Ts[i])
  /\ Len(Ts) > 0

\* valid_state_v<State>
valid_state_v(p, State) == elem_in_list_v(State, States(p))

\* position of the first true entry of isIt, or s_nStates when there is none
getStateIndexOneBased(p, State) ==
  LET hits == {i \in 1..s_nStates(p) : States(p)[i] = State}
  IN  IF hits = {} THEN s_nStates(p)
      ELSE CHOOSE i \in hits : \A j \in hits : i <= j

getStateIndex(p, State) ==
  LET isIt == [i \in 1..s_nStates(p) |-> States(p)[i] = State]
      hits == {i \in 1..s_nStates(p) : isIt[i]}
  IN  IF hits = {} THEN s_nStates(p)
      ELSE (CHOOSE i \in hits : \A j \in hits : i <= j) - 1

\* std::tuple_element_t<StateIndex, std::tuple<States...>>
tuple_element_tOffByOne(p, StateIndex) == States(p)[((StateIndex + 1) % s_nStates(p)) + 1]
tuple_element_t(p, StateIndex) == States(p)[StateIndex + 1]

\* fsm(): the host object the handlers and hooks receive
fsm == "this"

\* currentStateId(): return m_currentState
currentStateId == m_currentState

\* getState<State>(): return std::get<State>(m_states), the data of the one
\* instance of State
getState(State) == m_states[State]

(***************************************************************************)
(* Calls and frames                                                        *)
(***************************************************************************)
EnterCall(X) == [fn |-> "enterState", st |-> X, ev |-> NoEv]
ProcessCall(e) == [fn |-> "process", st |-> NoState, ev |-> e]

\* the states the client enters: all of them, of a padded machine the door's
\* states and the first and the last appended one
ClientTargets(p) ==
  IF IsPad(p)
  THEN {States(p)[i] : i \in {1, 2, 3, 4, s_nStates(p)}}
  ELSE StateSet(p)

\* the calls a client of machine p can make
Calls(p) == {EnterCall(X) : X \in ClientTargets(p)} \cup {ProcessCall(e) : e \in Events(p)}

\* activation record of a call that has just been made
CallFrame(c) ==
  [fn |-> c.fn, st |-> c.st, ev |-> c.ev,
   pc |-> IF c.fn = "process" THEN "switch" ELSE "run",
   n |-> 0, idx |-> 0, door |-> fsm,
   \* bookkeeping: index at the call, whether enterState had run before the
   \* call, direct invocations, target of the last enterState call of the
   \* callee body, whether a transition ran during the activation
   pre |-> m_currentState, init |-> lastEntered # NoState,
   inv |-> <<>>, ent |-> NoState, moved |-> FALSE]

\* activation record of State::handle(fsm(), ev) / NewState::enter(fsm())
BodyFrame(kind, State, e) ==
  [fn |-> kind, st |-> State, ev |-> e, pc |-> "body",
   n |-> 0, idx |-> 0, door |-> fsm,
   pre |-> 0, init |-> TRUE, inv |-> <<>>, ent |-> NoState, moved |-> FALSE]

Top == stack[Len(stack)]
Below == SubSeq(stack, 1, Len(stack) - 1)
SetTop(f) == [stack EXCEPT ![Len(stack)] = f]

\* main() of the examples, as the list of calls it makes
Script(p) ==
  CASE p = "ex1" -> << EnterCall("OpenState"),
                       ProcessCall([type |-> "CloseEvent", key |-> 0]),
                       ProcessCall([type |-> "CloseEvent", key |-> 0]),
                       ProcessCall([type |-> "OpenEvent", key |-> 0]) >>
    [] Door2(p)  -> << EnterCall("OpenState"),
                       ProcessCall([type |-> "CloseEvent", key |-> 0]),
                       ProcessCall([type |-> "OpenEvent", key |-> 0]),
                       ProcessCall([type |-> "CloseEvent", key |-> 0]),
                       ProcessCall([type |-> "LockEvent", key |-> BadKey]),
                       ProcessCall([type |-> "LockEvent", key |-> GoodKey]),
                       ProcessCall([type |-> "UnlockEvent", key |-> BadKey]),
                       ProcessCall([type |-> "UnlockEvent", key |-> GoodKey]) >>
    [] Hooked(p) -> << >>

(***************************************************************************)
(* User code: bodies of the handlers and enter hooks                       *)
(***************************************************************************)
OpEnter(Y) == [op |-> "enterState", st |-> Y, ev |-> NoEv, val |-> 0]
OpProcess(e) == [op |-> "process", st |-> NoState, ev |-> e, val |-> 0]
OpStore(v) == [op |-> "store", st |-> NoState, ev |-> NoEv, val |-> v]

\* statements a free handler / hook of machine p may execute
FreeOps(p) ==
  {OpEnter(Y) : Y \in StateSet(p)} \cup {OpProcess(e) : e \in Events(p)}
  \cup {OpStore(v) : v \in DataVals}

\* if (ev.key == door->m_key)
KeyMatchesAlways(key, e) == TRUE
KeyMatches(key, e) == e.key = key

\* the statements activation f may execute next (none: it returns)
BodyOps(p, key, f) ==
  CASE p = "ex1" ->
         IF f.n > 0 THEN {}
         ELSE IF f.st = "OpenState" /\ f.ev.type = "CloseEvent" THEN {OpEnter("CloseState")}
         ELSE IF f.st = "CloseState" /\ f.ev.type = "OpenEvent" THEN {OpEnter("OpenState")}
         ELSE {}
    [] Door2(p) ->
         IF f.n > 0 THEN {}
         ELSE IF f.st = "OpenState" /\ f.ev.type = "CloseEvent" THEN {OpEnter("CloseState")}
         ELSE IF f.st = "CloseState" /\ f.ev.type = "OpenEvent" THEN {OpEnter("OpenState")}
         ELSE IF f.st = "CloseState" /\ f.ev.type = "LockEvent" /\ KeyMatches(key, f.ev)
              THEN {OpEnter("LockedState")}
         ELSE IF f.st = "LockedState" /\ f.ev.type = "UnlockEvent" /\ KeyMatches(key, f.ev)
              THEN {OpEnter("CloseState")}
         ELSE {}
    [] p = "gen" -> IF f.n < MaxOps THEN FreeOps(p) ELSE {}
    [] p = "nest" ->
         IF f.fn = "handle" /\ f.st = "StateA" /\ f.ev.type = "EvB"
         THEN IF f.n = 0 THEN {OpEnter("StateB")}
              ELSE IF f.n = 1 THEN {OpProcess(f.ev)}
              ELSE {}
         ELSE IF f.n > 0 THEN {}
         ELSE IF f.fn = "handle" /\ f.st = "StateA" /\ f.ev.type = "EvA"
              THEN {OpEnter("StateC")}
         ELSE IF f.fn = "handle" /\ f.st = "StateB" /\ f.ev.type = "EvB"
              THEN {OpEnter("StateA")}
         ELSE IF f.fn = "enter" /\ f.st = "StateB" THEN {OpStore(1)}
         ELSE IF f.fn = "enter" /\ f.st = "StateC"
              THEN {OpProcess([type |-> "EvA", key |-> 0])}
         ELSE {}

\* the activation may return now
BodyMayReturn(p, key, f) == p = "gen" \/ BodyOps(p, key, f) = {}

(***************************************************************************)
(* Dispatch strategy of process                                            *)
(***************************************************************************)
\* number of case labels of the switch; 0 stands for the table strategy
SwitchCases(nStates) ==
  IF nStates <= 4 THEN 4
  ELSE IF nStates <= 16 THEN 16
  ELSE IF nStates <= 64 THEN 64
  ELSE IF nStates <= 256 THEN 256
  ELSE 0

\* where control is after the body of case c
\* (if constexpr ((n) < s_nStates) { processFromIndex<(n)>(ev); break; })
CaseEndNoBreak(p, c) == IF c < s_nStates(p) THEN "fallthrough" ELSE "unreachable"
CaseEnd(p, c) == IF c < s_nStates(p) THEN "break" ELSE "unreachable"

\* the arguments X is applied to by _TINIEST_FSM_DISPATCH_k(n, X)
DISPATCH_4(n) == <<n, n + 1, n + 2, n + 3>>

\* the third group of four repeats the second
DISPATCH_16Repeated(n) ==
  DISPATCH_4(n) \o DISPATCH_4(n + 4) \o DISPATCH_4(n + 4) \o DISPATCH_4(n + 12)

DISPATCH_16(n) ==
  DISPATCH_4(n) \o DISPATCH_4(n + 4) \o DISPATCH_4(n + 8) \o DISPATCH_4(n + 12)
DISPATCH_64(n) ==
  DISPATCH_16(n) \o DISPATCH_16(n + 16) \o DISPATCH_16(n + 32) \o DISPATCH_16(n + 48)
DISPATCH_256(n) ==
  DISPATCH_64(n) \o DISPATCH_64(n + 64) \o DISPATCH_64(n + 128) \o DISPATCH_64(n + 192)

\* dispatcher(0, _TINIEST_FSM_CASE): the case labels of the switch, in order
CaseLabels(cases) ==
  CASE cases = 4 -> DISPATCH_4(0)
    [] cases = 16 -> DISPATCH_16(0)
    [] cases = 64 -> DISPATCH_64(0)
    [] cases = 256 -> DISPATCH_256(0)
    [] OTHER -> <<>>

\* if constexpr (has_handler_v<State, Event>) ...handle(fsm(), ev):
\* the state whose handler is run, NoState for none
processFromState(p, State, Event) ==
  IF has_handler_v(p, State, Event) THEN State ELSE NoState

\* switch strategy: the case labelled c, when there is one and c < s_nStates,
\* runs processFromIndex<c>; any other index is unreachable
SwitchTarget(p, c, Event) ==
  LET labels == CaseLabels(SwitchCases(s_nStates(p)))
  IN  IF (\E k \in 1..Len(labels) : labels[k] = c) /\ c < s_nStates(p)
      THEN processFromState(p, tuple_element_t(p, c), Event)
      ELSE "unreachable"

\* table strategy: f[i] is processFromState of the i-th state or nullptr;
\* f[m_currentState] is called if it is not null
TableTargetNoNullCheck(p, c, Event) ==
  IF c < s_nStates(p) THEN States(p)[c + 1] ELSE "unreachable"

\* static constexpr process_fun_t f[s_nStates] =
\*   {(has_handler_v<States, Event> ? &this_t::processFromState<States, Event>
\*                                  : nullptr)...}
Table(p, Event) ==
  [i \in 0..(s_nStates(p) - 1) |->
     IF has_handler_v(p, States(p)[i + 1], Event)
     THEN processFromState(p, States(p)[i + 1], Event) ELSE NoState]

TableTarget(p, c, Event) ==
  LET f == Table(p, Event)
  IN  IF c < s_nStates(p) THEN f[c] ELSE "unreachable"

DispatchTargetNoProbe(p, c, Event) ==
  IF c < s_nStates(p) THEN tuple_element_t(p, c) ELSE "unreachable"

\* the state whose handler the dispatch on index c selects, NoState when
\* that state has no handler for Event, "unreachable" when c hits no
\* reachable case / table slot
DispatchTarget(p, c, Event) ==
  IF SwitchCases(s_nStates(p)) > 0
  THEN SwitchTarget(p, c, Event)
  ELSE TableTarget(p, c, Event)

\* if constexpr (hasEnter) std::get<NewState>(m_states).enter(fsm()):
\* the state whose enter hook enterState<NewState> calls, NoState for none
EnterHookOfUnconditional(p, NewState) == NewState

\* the hook is skipped when NewState was already the active state
EnterHookOfOnChange(p, NewState) ==
  IF hasEnter(p, NewState) /\ Top.pre # getStateIndex(p, NewState)
  THEN NewState ELSE NoState

EnterHookOf(p, NewState) == IF hasEnter(p, NewState) THEN NewState ELSE NoState

\* the order of the two steps of enterState
enterStateStepsHookTwice == <<"write", "hook", "hook">>
enterStateStepsHookFirst == <<"hook", "write">>
enterStateSteps == <<"write", "hook">>

\* frames the call o made now puts on the stack: its own and, when it
\* invokes a handler or an enter hook, that one's
FramesOf(o) ==
  IF o.op = "enterState"
  THEN IF EnterHookOf(prog, o.st) # NoState THEN 2 ELSE 1
  ELSE IF DispatchTarget(prog, m_currentState, o.ev.type) # NoState THEN 2 ELSE 1

\* values of an index that was never written: small ones, the first one
\* past the states and the first one past the case labels
Indeterminate(p) ==
  (0..MaxIndeterminate) \cup {s_nStates(p), SwitchCases(s_nStates(p))}

(***************************************************************************)
(* Initial state: the machine right after construction                     *)
(***************************************************************************)
\* outcome of a compile-time evaluation: the template, whether it is true /
\* accepted, and its value when it is a number
Outcome(tpl, ok, num) == [tpl |-> tpl, ok |-> ok, num |-> num]
NotCompiled == Outcome("-", FALSE, 0)

Init ==
  /\ prog \in Programs
  /\ m_key \in (IF Door2(prog) THEN Keys ELSE {0})
  \* Door door{} value-initialises the base; MyFSM's constructor and a
  \* default-initialised machine leave the index indeterminate
  /\ m_currentState \in (IF prog = "ex1" THEN {0} ELSE Indeterminate(prog))
  /\ \E d \in [{S \in StateSet(prog) : HasData(prog, S)} -> DataVals] :
       m_states = [S \in StateSet(prog) |-> IF HasData(prog, S) THEN d[S] ELSE 0]
  /\ stack = <<>>
  /\ mainPc = (IF prog = "ex1" \/ (Door2(prog) /\ m_key = GoodKey) THEN At(0) ELSE Free)
  /\ lastEntered = NoState
  \* no template is under instantiation while the program runs
  /\ tplArgs = <<>>
  /\ tplElem = NoState
  /\ compiled = NotCompiled

(***************************************************************************)
(* Actions                                                                 *)
(***************************************************************************)
\* the client (main) calls enterState<X>() or process(ev) on the machine
MainCall ==
  /\ stack = <<>>
  /\ \E c \in Calls(prog) :
       /\ stack' = <<CallFrame(c)>>
       /\ mainPc' = IF mainPc.on /\ mainPc.at < Len(Script(prog))
                       /\ Script(prog)[mainPc.at + 1] = c
                    THEN At(mainPc.at + 1) ELSE Free
  /\ UNCHANGED <<tvars, prog, m_key, m_currentState, m_states, lastEntered>>

\* process: switch (m_currentState) { case c: processFromIndex<c>(ev); break; }
ProcessDispatch ==
  /\ stack # <<>>
  /\ Top.fn = "process"
  /\ Top.pc \in {"switch", "fallthrough"}
  /\ LET c == IF Top.pc = "switch" THEN m_currentState ELSE Top.idx + 1
         t == DispatchTarget(prog, c, Top.ev.type)
     IN  IF t = "unreachable"
         THEN stack' = SetTop([Top EXCEPT !.pc = "unreachable", !.idx = c])
         ELSE IF t = NoState
         THEN stack' = SetTop([Top EXCEPT !.pc = CaseEnd(prog, c), !.idx = c])
         ELSE stack' = Append(
                SetTop([Top EXCEPT !.pc = CaseEnd(prog, c), !.idx = c,
                          !.inv = Append(@, [st |-> t, ev |-> Top.ev, door |-> fsm])]),
                BodyFrame("handle", t, Top.ev))
  /\ UNCHANGED <<tvars, prog, m_key, m_currentState, m_states, mainPc, lastEntered>>

\* process reached _TINIEST_FSM_UNREACHABLE: undefined behaviour, the build
\* may run any state's handler for the event or none
ProcessUnreachable ==
  /\ stack # <<>>
  /\ Top.fn = "process"
  /\ Top.pc = "unreachable"
  /\ \/ stack' = SetTop([Top EXCEPT !.pc = "break"])
     \/ \E T \in StateSet(prog) :
          /\ has_handler_v(prog, T, Top.ev.type)
          /\ stack' = Append(
               SetTop([Top EXCEPT !.pc = "break",
                         !.inv = Append(@, [st |-> T, ev |-> Top.ev, door |-> fsm])]),
               BodyFrame("handle", T, Top.ev))
  /\ UNCHANGED <<tvars, prog, m_key, m_currentState, m_states, mainPc, lastEntered>>

\* process returns to its caller
ProcessReturn ==
  /\ stack # <<>>
  /\ Top.fn = "process"
  /\ Top.pc = "break"
  /\ stack' = Below
  /\ UNCHANGED <<tvars, prog, m_key, m_currentState, m_states, mainPc, lastEntered>>

\* enterState: m_currentState = getStateIndex<NewState>(), then the hook
EnterStateStep ==
  /\ stack # <<>>
  /\ Top.fn = "enterState"
  /\ Top.n < Len(enterStateSteps)
  /\ valid_state_v(prog, Top.st)
  /\ IF enterStateSteps[Top.n + 1] = "write"
     THEN /\ m_currentState' = getStateIndex(prog, Top.st)
          /\ lastEntered' = Top.st
          /\ stack' = [i \in 1..Len(stack) |->
                         IF i = Len(stack) THEN [Top EXCEPT !.n = @ + 1]
                         ELSE [stack[i] EXCEPT !.moved = TRUE]]
     ELSE /\ UNCHANGED <<m_currentState, lastEntered>>
          /\ IF EnterHookOf(prog, Top.st) # NoState
             THEN stack' = Append(
                    SetTop([Top EXCEPT !.n = @ + 1,
                              !.inv = Append(@, [st |-> EnterHookOf(prog, Top.st),
                                                 ev |-> NoEv, door |-> fsm])]),
                    BodyFrame("enter", EnterHookOf(prog, Top.st), NoEv))
             ELSE stack' = SetTop([Top EXCEPT !.n = @ + 1])
  /\ UNCHANGED <<tvars, prog, m_key, m_states, mainPc>>

\* enterState returns to its caller
EnterStateReturn ==
  /\ stack # <<>>
  /\ Top.fn = "enterState"
  /\ Top.n = Len(enterStateSteps)
  /\ stack' = Below
  /\ UNCHANGED <<tvars, prog, m_key, m_currentState, m_states, mainPc, lastEntered>>

\* a handler or enter hook executes its next statement
BodyStep ==
  /\ stack # <<>>
  /\ Top.fn \in {"handle", "enter"}
  /\ \E o \in BodyOps(prog, m_key, Top) :
       IF o.op = "store"
       THEN /\ HasData(prog, Top.st)
            /\ m_states' = [m_states EXCEPT ![Top.st] = o.val]
            /\ stack' = SetTop([Top EXCEPT !.n = @ + 1])
       ELSE /\ Len(stack) + FramesOf(o) <= MaxDepth
            /\ stack' = Append(
                 SetTop([Top EXCEPT !.n = @ + 1,
                           !.ent = IF o.op = "enterState" THEN o.st ELSE @]),
                 CallFrame([fn |-> o.op, st |-> o.st, ev |-> o.ev]))
            /\ UNCHANGED m_states
  /\ UNCHANGED <<tvars, prog, m_key, m_currentState, mainPc, lastEntered>>

\* a handler or enter hook returns
BodyReturn ==
  /\ stack # <<>>
  /\ Top.fn \in {"handle", "enter"}
  /\ BodyMayReturn(prog, m_key, Top)
  /\ stack' = [Below EXCEPT ![Len(stack) - 1].ent = Top.ent]
  /\ UNCHANGED <<tvars, prog, m_key, m_currentState, m_states, mainPc, lastEntered>>

Next ==
  \/ MainCall
  \/ ProcessDispatch
  \/ ProcessUnreachable
  \/ ProcessReturn
  \/ EnterStateStep
  \/ EnterStateReturn
  \/ BodyStep
  \/ BodyReturn

Spec == Init /\ [][Next]_vars

\* the steps the machine's own code and the handlers and hooks take while a
\* call is active: the thread that made the call keeps executing it
Run ==
  \/ ProcessDispatch
  \/ ProcessReturn
  \/ EnterStateStep
  \/ EnterStateReturn
  \/ BodyStep
  \/ BodyReturn

\* machines whose handlers and hooks are given, so that each of them
\* returns: the examples, the reentrant client and a machine dispatching
\* through the table
LiveInit == Init /\ prog \in {"ex1", "ex2", "nest", "pad257"}

\* these machines, executed by a thread that does not stop inside a call
LiveSpec == LiveInit /\ [][Next]_vars /\ WF_vars(Run)

(***************************************************************************)
(* Compile time: instantiation of the templates                            *)
(***************************************************************************)
\* type lists of at most n entries
RECURSIVE TypeLists(_)
TypeLists(n) ==
  IF n = 0 THEN {<<>>}
  ELSE TypeLists(n - 1)
       \cup {Append(l, T) : l \in {m \in TypeLists(n - 1) : Len(m) = n - 1}, T \in Types}

\* the compiler is given StateMachine<Derived, std::tuple<tplArgs...>> and a
\* further type; no object exists yet
TypeInit ==
  /\ prog = "tpl"
  /\ tplArgs \in TypeLists(MaxTypes)
  /\ tplElem \in Types
  /\ compiled = NotCompiled
  /\ m_key = 0
  /\ m_currentState = Len(tplArgs)
  /\ m_states = <<>>
  /\ stack = <<>>
  /\ mainPc = Free
  /\ lastEntered = NoState

\* details::elem_in_list_v<tplElem, tplArgs...> is evaluated
EvalElemInList ==
  /\ compiled = NotCompiled
  /\ compiled' = Outcome("elem_in_list_v", elem_in_list_v(tplElem, tplArgs), 0)
  /\ UNCHANGED <<prog, m_key, m_currentState, m_states, stack, mainPc, lastEntered,
                 tplArgs, tplElem>>

\* details::count_in_list_v<tplElem, tplArgs...> is evaluated
EvalCountInList ==
  /\ compiled = NotCompiled
  /\ compiled' = Outcome("count_in_list_v", TRUE, count_in_list_v(tplElem, tplArgs))
  /\ UNCHANGED <<prog, m_key, m_currentState, m_states, stack, mainPc, lastEntered,
                 tplArgs, tplElem>>

\* details::are_distinct_v<tplArgs...> is evaluated
EvalAreDistinct ==
  /\ compiled = NotCompiled
  /\ compiled' = Outcome("are_distinct_v", are_distinct_v(tplArgs), 0)
  /\ UNCHANGED <<prog, m_key, m_currentState, m_states, stack, mainPc, lastEntered,
                 tplArgs, tplElem>>

\* class StateMachine<Derived, std::tuple<tplArgs...>> is instantiated: the
\* program is accepted iff the constraint of the specialisation holds
InstantiateStateMachine ==
  /\ compiled = NotCompiled
  /\ compiled' = Outcome("StateMachine", Requires(tplArgs), 0)
  /\ UNCHANGED <<prog, m_key, m_currentState, m_states, stack, mainPc, lastEntered,
                 tplArgs, tplElem>>

\* enterState<tplElem> or getState<tplElem> of the accepted machine is
\* instantiated: static_assert(valid_state_v<State>, "invalid state type")
InstantiateMember ==
  /\ compiled.tpl = "StateMachine"
  /\ compiled.ok
  /\ \E member \in {"enterState", "getState"} :
       compiled' = Outcome(member, valid_state_v(prog, tplElem), 0)
  /\ UNCHANGED <<prog, m_key, m_currentState, m_states, stack, mainPc, lastEntered,
                 tplArgs, tplElem>>

\* the compiled program calls enterState<tplElem>() on its machine
RunEnterState ==
  /\ compiled.tpl = "enterState"
  /\ compiled.ok
  /\ lastEntered = NoState
  /\ m_currentState' = getStateIndex(prog, tplElem)
  /\ lastEntered' = tplElem
  /\ UNCHANGED <<prog, m_key, m_states, stack, mainPc, tvars>>

TypeNext ==
  \/ EvalElemInList
  \/ EvalCountInList
  \/ EvalAreDistinct
  \/ InstantiateStateMachine
  \/ InstantiateMember
  \/ RunEnterState

TypeSpec == TypeInit /\ [][TypeNext]_vars

(***************************************************************************)
(* Properties                                                              *)
(***************************************************************************)
Frames == {stack[i] : i \in 1..Len(stack)}

\* the state with ordinal i of the declared state set
StateAt(i) == States(prog)[i + 1]

\* ordinal of state X in the declared state set
Ordinal(X) == CHOOSE i \in 0..(s_nStates(prog) - 1) : States(prog)[i + 1] = X

\* a handler invocation: state instance, event value, host pointer
Invocation(S, e) == [st |-> S, ev |-> e, door |-> "this"]

\* C1: a process(ev) call made while state S is active invokes S's handle
\* for ev exactly once, with the host pointer and the event value passed to
\* process, iff S declares a handler for ev's type; otherwise it invokes no
\* handler of any state.
C1_HandlerInvokedIffDeclared ==
  /\ \A f \in Frames :
       (f.fn = "process" /\ f.pre < s_nStates(prog)) =>
         /\ f.pc = "switch" => f.inv = <<>>
         /\ f.pc # "switch" =>
              f.inv = IF has_handler_v(prog, StateAt(f.pre), f.ev.type)
                      THEN <<Invocation(StateAt(f.pre), f.ev)>>
                      ELSE <<>>
  /\ \A i \in 1..Len(stack) :
       stack[i].fn = "handle" =>
         /\ i > 1
         /\ stack[i - 1].fn = "process"
         /\ stack[i - 1].inv # <<>>
         /\ stack[i - 1].inv[Len(stack[i - 1].inv)]
              = Invocation(stack[i].st, stack[i].ev)
         /\ stack[i].door = "this"

\* a process call that carried a payload has run the active state's handler
\* and is about to return
C1_Witness ==
  /\ stack # <<>>
  /\ Top.init
  /\ Top.fn = "process"
  /\ Top.pc = "break"
  /\ Top.pre < s_nStates(prog)
  /\ Top.ev.key = BadKey
  /\ Len(Top.inv) = 1

\* C2: process never invokes a handler of a state other than the one active
\* when it was called; when the dispatched handler moves the machine to a
\* state T handling the same event type, T's handler is not run by the same
\* process call.
C2_OnlyActiveStateHandler ==
  \A f \in Frames :
    (f.fn = "process" /\ f.pre < s_nStates(prog)) =>
      /\ Len(f.inv) <= 1
      /\ \A k \in 1..Len(f.inv) : f.inv[k].st = StateAt(f.pre)
      /\ f.pc \in {"switch", "break"}
      /\ f.pc = "break" => f.idx = f.pre

\* the dispatched handler has returned after moving the machine to another
\* state that handles the same event type
C2_Witness ==
  /\ stack # <<>>
  /\ Top.init
  /\ Top.fn = "process"
  /\ Top.pc = "break"
  /\ Top.pre < s_nStates(prog)
  /\ Len(Top.inv) = 1
  /\ m_currentState < s_nStates(prog)
  /\ m_currentState # Top.pre
  /\ has_handler_v(prog, StateAt(m_currentState), Top.ev.type)

\* an enterState call has finished both its steps and is about to return
Returning(f) == f.fn = "enterState" /\ f.n >= 2

\* C3 as stated: currentStateId() read immediately after enterState<X>()
\* returns equals the ordinal of X, for every state X of every state set.
C3_IndexIsTargetAfterEnterState ==
  (stack # <<>> /\ Returning(Top)) => m_currentState = Ordinal(Top.st)

\* C3 amended: currentStateId() read immediately after enterState<X>()
\* returns equals the ordinal of X whenever no further enterState ran inside
\* the call (X has no enter hook, or the hook made no transition); in every
\* case it equals the ordinal of the target of the last enterState executed.
C3_IndexIsLastTargetAfterEnterState ==
  (stack # <<>> /\ Returning(Top)) =>
    /\ m_currentState = Ordinal(lastEntered)
    /\ ~Top.moved => m_currentState = Ordinal(Top.st)
    /\ ~hasEnter(prog, Top.st) => ~Top.moved

\* enterState<X>() for an X other than the first state, called while another
\* state was active, is about to return without a nested transition
C3_Witness ==
  /\ stack # <<>>
  /\ Returning(Top)
  /\ ~Top.moved
  /\ Ordinal(Top.st) > 0
  /\ Top.pre # Ordinal(Top.st)
  /\ m_currentState = Ordinal(Top.st)

\* C4: a call enterState<X>() invokes X's enter hook exactly once if X
\* declares one and zero times otherwise, and invokes no other state's enter
\* hook.
C4_EnterHookOnceIffDeclared ==
  /\ \A f \in Frames :
       f.fn = "enterState" =>
         /\ Len(f.inv) <= 1
         /\ \A k \in 1..Len(f.inv) : f.inv[k] = Invocation(f.st, NoEv)
         /\ Returning(f) =>
              Len(f.inv) = (IF hasEnter(prog, f.st) THEN 1 ELSE 0)
  /\ \A i \in 1..Len(stack) :
       stack[i].fn = "enter" =>
         /\ i > 1
         /\ stack[i - 1].fn = "enterState"
         /\ stack[i - 1].st = stack[i].st
         /\ hasEnter(prog, stack[i].st)

\* enterState<X>() for an X with an enter hook is about to return, and the
\* hook itself has entered a state without a hook
C4_Witness ==
  /\ Len(stack) = 1
  /\ Returning(Top)
  /\ hasEnter(prog, Top.st)
  /\ Top.inv = <<Invocation(Top.st, NoEv)>>
  /\ Top.moved
  /\ ~hasEnter(prog, lastEntered)

\* C5: enterState<X>() writes the index before it invokes X's enter hook:
\* when the hook starts, and until the hook itself makes a transition,
\* currentStateId() equals X's ordinal, and a process call the hook makes
\* then is dispatched to X.
C5_IndexWrittenBeforeHook ==
  \A i \in 1..Len(stack) :
    stack[i].fn = "enter" =>
      /\ ~stack[i].moved => m_currentState = Ordinal(stack[i].st)
      /\ (i < Len(stack) /\ stack[i].n = 1 /\ stack[i + 1].fn = "process") =>
           /\ stack[i + 1].pre = Ordinal(stack[i].st)
           /\ stack[i + 1].pc # "unreachable"
           /\ \A k \in 1..Len(stack[i + 1].inv) :
                stack[i + 1].inv[k].st = stack[i].st

\* X's enter hook, entered from another state, has called process as its
\* first statement and X's handler for the event is running
C5_Witness ==
  /\ Len(stack) = 4
  /\ stack[1].fn = "enterState"
  /\ stack[1].pre # Ordinal(stack[1].st)
  /\ stack[2].fn = "enter"
  /\ stack[2].n = 1
  /\ stack[3].fn = "process"
  /\ stack[4].fn = "handle"
  /\ stack[4].st = stack[1].st

\* the step calls fn: it pushes a frame of that function
Calling(fn) ==
  /\ Len(stack') = Len(stack) + 1
  /\ stack'[Len(stack')].fn = fn

\* what a step taken by an enterState<X>() activation may do
C6_Step ==
  /\ (stack # <<>> /\ Top.fn = "enterState") =>
       /\ m_states' = m_states
       /\ m_currentState' \in {m_currentState, Ordinal(Top.st)}
       /\ Len(stack') <= Len(stack) + 1
       /\ Len(stack') > Len(stack) =>
            /\ hasEnter(prog, Top.st)
            /\ stack'[Len(stack')].fn = "enter"
            /\ stack'[Len(stack')].st = Top.st
  /\ Calling("enterState") => UNCHANGED <<m_currentState, m_states>>

\* C6: enterState<X>() invokes no handler and no hook of the previously
\* active state; what it does itself is the write of the index and the call
\* of X's enter hook, so for an X without an enter hook no other code runs
\* between its call and its return and every state instance's data is left
\* unchanged.
C6_EnterStateEffect ==
  /\ [](\A i \in 1..Len(stack) :
          (stack[i].fn = "enterState" /\ ~hasEnter(prog, stack[i].st)) =>
            (i = Len(stack) /\ stack[i].inv = <<>> /\ ~stack[i].moved))
  /\ [][C6_Step]_vars

\* enterState<X>() for an X without an enter hook, called from a handler
\* while another state was active and state data was set, is about to return
C6_Witness ==
  /\ Len(stack) > 1
  /\ Returning(Top)
  /\ ~hasEnter(prog, Top.st)
  /\ Top.pre # Ordinal(Top.st)
  /\ m_currentState = Ordinal(Top.st)
  /\ \E S \in StateSet(prog) : m_states[S] = 1

\* a process call whose active state declares no handler for the event
Ignored(f) ==
  /\ f.fn = "process"
  /\ f.pre < s_nStates(prog)
  /\ ~has_handler_v(prog, StateAt(f.pre), f.ev.type)

\* what a step taken on behalf of an ignored process call may do
C7_Step ==
  /\ (stack # <<>> /\ Ignored(Top)) =>
       /\ UNCHANGED <<m_currentState, m_states>>
       /\ Len(stack') <= Len(stack)
  /\ Calling("process") => UNCHANGED <<m_currentState, m_states>>

\* C7: process(ev) called when the active state declares no handler for
\* ev's type leaves currentStateId() and the data of every state instance
\* unchanged from the call to the return, runs no other code and signals no
\* error, however often it is repeated.
C7_UnhandledEventIgnored ==
  /\ [](\A i \in 1..Len(stack) :
          Ignored(stack[i]) =>
            /\ i = Len(stack)
            /\ stack[i].pc \in {"switch", "break"}
            /\ stack[i].inv = <<>>
            /\ m_currentState = stack[i].pre)
  /\ [][C7_Step]_vars

\* an ignored process call is about to return, in a machine whose active
\* state is not the first one and whose state data was set
C7_Witness ==
  /\ stack # <<>>
  /\ Top.init
  /\ Ignored(Top)
  /\ Top.pc = "break"
  /\ m_currentState > 0
  /\ Top.ev.key = GoodKey
  /\ \E S \in StateSet(prog) : m_states[S] = 1

\* a process call whose dispatch is over and that is about to return
AboutToReturn(f) == f.fn = "process" /\ f.pc = "break"

\* C8 as stated: if the handler invoked by process(ev) calls
\* enterState<Y>(), the machine is in state Y when the outer process call
\* returns (Y taken as the handler's last such call).
C8_HandlerTargetIsFinalState ==
  (stack # <<>> /\ AboutToReturn(Top) /\ Top.init /\ Top.ent # NoState) =>
    m_currentState = Ordinal(Top.ent)

\* C8 amended: when the outer process call returns, the machine is in the
\* state targeted by the last enterState executed during the call in
\* call-stack order (Y itself unless Y's enter hook or a later call of the
\* handler made a further transition), and in the state it was called in if
\* none was executed; process does not restore or overwrite the index after
\* the handler returns.
C8_LastTransitionIsFinalState ==
  /\ []((stack # <<>> /\ AboutToReturn(Top)) =>
          /\ Top.moved => m_currentState = Ordinal(lastEntered)
          /\ ~Top.moved => m_currentState = Top.pre
          /\ Top.ent # NoState => Top.moved)
  /\ [][(stack # <<>> /\ Top.fn = "process") => m_currentState' = m_currentState]_vars

\* the handler called enterState<Y>() from another state, and the process
\* call is about to return with the machine in Y
C8_Witness ==
  /\ stack # <<>>
  /\ AboutToReturn(Top)
  /\ Top.init
  /\ Top.ent # NoState
  /\ Top.pre # Ordinal(Top.ent)
  /\ m_currentState = Ordinal(Top.ent)

\* index after the k-th call of main of example 1
Ex1Expected == <<0, 1, 1, 0>>

\* C9: two-state door (OPEN = 0, CLOSE = 1): after enterState<OPEN>,
\* process(Close) leads to CLOSE, a second process(Close) stays in CLOSE and
\* process(Open) leads back to OPEN; from any state Close only has effect in
\* OPEN and Open only has effect in CLOSE.
C9_DoorScenario ==
  prog = "ex1" =>
    /\ (stack = <<>> /\ mainPc.on /\ mainPc.at >= 1) =>
         m_currentState = Ex1Expected[mainPc.at]
    /\ (Len(stack) = 1 /\ AboutToReturn(Top)) =>
         /\ (Top.ev.type = "CloseEvent" /\ Top.pre = 0) =>
              (m_currentState = 1 /\ Len(Top.inv) = 1)
         /\ (Top.ev.type = "CloseEvent" /\ Top.pre = 1) =>
              (m_currentState = 1 /\ Top.inv = <<>>)
         /\ (Top.ev.type = "OpenEvent" /\ Top.pre = 1) =>
              (m_currentState = 0 /\ Len(Top.inv) = 1)
         /\ (Top.ev.type = "OpenEvent" /\ Top.pre = 0) =>
              (m_currentState = 0 /\ Top.inv = <<>>)

\* main of example 1 has made all its calls and the door is open again
C9_Witness ==
  /\ prog = "ex1"
  /\ stack = <<>>
  /\ mainPc = At(4)
  /\ m_currentState = 0

\* index after the k-th call of main of example 2
Ex2Expected == <<0, 1, 0, 1, 1, 2, 2, 1>>

\* C10: three-state lockable door with key 123: from OPEN, process(Close)
\* leads to CLOSE, process(Lock{521}) stays in CLOSE, process(Lock{123})
\* leads to LOCKED, process(Unlock{521}) stays in LOCKED and
\* process(Unlock{123}) leads to CLOSE.
C10_LockableDoorScenario ==
  (prog = "ex2" /\ m_key = 123) =>
    /\ (stack = <<>> /\ mainPc.on /\ mainPc.at >= 1) =>
         m_currentState = Ex2Expected[mainPc.at]
    /\ (Len(stack) = 1 /\ AboutToReturn(Top)) =>
         /\ (Top.ev.type = "CloseEvent" /\ Top.pre = 0) => m_currentState = 1
         /\ (Top.ev = [type |-> "LockEvent", key |-> 521] /\ Top.pre = 1) =>
              m_currentState = 1
         /\ (Top.ev = [type |-> "LockEvent", key |-> 123] /\ Top.pre = 1) =>
              m_currentState = 2
         /\ (Top.ev = [type |-> "UnlockEvent", key |-> 521] /\ Top.pre = 2) =>
              m_currentState = 2
         /\ (Top.ev = [type |-> "UnlockEvent", key |-> 123] /\ Top.pre = 2) =>
              m_currentState = 1

\* main of example 2 has made all its calls: the door was locked and
\* unlocked again
C10_Witness ==
  /\ prog = "ex2"
  /\ m_key = 123
  /\ stack = <<>>
  /\ mainPc = At(8)
  /\ m_currentState = 1

\* the dispatch strategy process uses in machine p
StrategyOf(p) == IF SwitchCases(s_nStates(p)) > 0 THEN "switch" ELSE "table"

\* ordinal of state X in the state set of machine q
OrdinalIn(q, X) == CHOOSE i \in 0..(s_nStates(q) - 1) : States(q)[i + 1] = X

\* what the other strategy selects for an event of type E while state X is
\* active: the table built for the same state set, and the strategy of every
\* machine with the same states and handlers but a state count of the other
\* tier
OtherStrategyTargets(X, E) ==
  (IF StrategyOf(prog) = "switch"
   THEN {TableTarget(prog, Ordinal(X), E)} ELSE {})
  \cup (IF Door2(prog)
        THEN {IF StrategyOf(q) = "switch"
              THEN SwitchTarget(q, OrdinalIn(q, X), E)
              ELSE TableTarget(q, OrdinalIn(q, X), E) :
                q \in {r \in Programs : /\ Door2(r)
                                        /\ StrategyOf(r) # StrategyOf(prog)
                                        /\ X \in StateSet(r)}}
        ELSE {})

\* C11: the switch strategy and the table strategy are observably identical:
\* for the same states, handlers, active state and event both invoke the
\* same handler with the same arguments or none, and a machine of more than
\* 256 states run through the calls of main ends every call in the same
\* state as the small machine.
C11_StrategiesAgree ==
  /\ \A f \in Frames :
       (f.fn = "process" /\ f.pc # "switch" /\ f.pre < s_nStates(prog)) =>
         \A t \in OtherStrategyTargets(StateAt(f.pre), f.ev.type) :
           f.inv = IF t = NoState THEN <<>> ELSE <<Invocation(t, f.ev)>>
  /\ (IsPad(prog) /\ m_key = GoodKey /\ stack = <<>> /\ mainPc.on /\ mainPc.at >= 1) =>
       m_currentState = Ex2Expected[mainPc.at]

\* a machine dispatching through the table has made all the calls of main
\* of example 2 and is in CLOSE
C11_Witness ==
  /\ StrategyOf(prog) = "table"
  /\ stack = <<>>
  /\ mainPc = At(8)
  /\ m_currentState = 1

\* the step is the assignment of enterState<X>(): the first statement of the
\* activation on top of the stack
IndexWrite ==
  /\ stack # <<>>
  /\ Top.fn = "enterState"
  /\ Top.n = 0
  /\ m_currentState' = Ordinal(Top.st)

\* C12: the index is written only by enterState, never by process's
\* dispatch code or by the handlers and hooks themselves; in every state
\* reached after the first enterState, through any sequence of enterState
\* and process calls including reentrant ones, 0 <= index < n, and a
\* process call made then never reaches an unreachable case or table slot.
C12_IndexOnlyByEnterStateInRange ==
  /\ [](lastEntered # NoState =>
          /\ 0 <= currentStateId
          /\ currentStateId < s_nStates(prog)
          /\ currentStateId = Ordinal(lastEntered))
  /\ [](\A f \in Frames :
          (f.fn = "process" /\ f.init) =>
            /\ f.pre < s_nStates(prog)
            /\ f.pc # "unreachable"
            /\ f.pc # "switch" => f.idx < s_nStates(prog))
  /\ [][m_currentState' # m_currentState => IndexWrite]_vars

\* a process call made by an enter hook, after the machine entered its last
\* state, has been dispatched and is about to return
C12_Witness ==
  /\ Len(stack) >= 3
  /\ stack[Len(stack) - 1].fn = "enter"
  /\ Top.fn = "process"
  /\ Top.init
  /\ Top.pc = "break"
  /\ currentStateId = s_nStates(prog) - 1

\* stack[i] is a handler whose first statement was enterState<Y>() and whose
\* second statement is the call process(ev2), whose activation is
\* stack[i + 1]; Y is stack[i].ent
NestedProcess(i) ==
  /\ i < Len(stack)
  /\ stack[i].fn = "handle"
  /\ stack[i].n = 2
  /\ stack[i].ent # NoState
  /\ stack[i + 1].fn = "process"

\* C13 as stated: if state S's handler calls enterState<Y>() and then
\* process(ev2), ev2 is dispatched to Y.
C13_NestedEventDispatchedToTarget ==
  \A i \in 1..Len(stack) :
    NestedProcess(i) => stack[i + 1].pre = Ordinal(stack[i].ent)

\* a step leaves every activation below the top of the stack where it is:
\* the caller resumes only when the call it made has returned
CallStackOrder ==
  \A i \in 1..(Len(stack) - 1) :
    /\ i <= Len(stack')
    /\ stack'[i].fn = stack[i].fn
    /\ stack'[i].n = stack[i].n
    /\ stack'[i].pc = stack[i].pc
    /\ stack'[i].inv = stack[i].inv

\* C13 amended: reentrant calls of process / enterState made by a handler
\* run as nested synchronous calls in call-stack order: if S's handler calls
\* enterState<Y>() and then process(ev2), ev2 is dispatched to the state
\* active at the moment of the nested call, which is the target of the last
\* enterState executed so far (Y itself when Y has no enter hook, or its
\* hook made no transition); the nested call runs to completion before the
\* handler resumes, and when the outer process returns the machine is in the
\* state set by the last enterState executed in call-stack order.
C13_NestedCallsInCallStackOrder ==
  /\ [](\A i \in 1..Len(stack) :
          NestedProcess(i) =>
            /\ stack[i + 1].pre < s_nStates(prog)
            /\ ~hasEnter(prog, stack[i].ent) =>
                 stack[i + 1].pre = Ordinal(stack[i].ent)
            /\ stack[i + 1].pc # "switch" =>
                 /\ stack[i + 1].idx = stack[i + 1].pre
                 /\ stack[i + 1].inv =
                      IF has_handler_v(prog, StateAt(stack[i + 1].pre), stack[i + 1].ev.type)
                      THEN <<Invocation(StateAt(stack[i + 1].pre), stack[i + 1].ev)>>
                      ELSE <<>>
            /\ (i + 1 = Len(stack) /\ ~stack[i + 1].moved) =>
                 m_currentState = stack[i + 1].pre)
  /\ []((Len(stack) = 1 /\ AboutToReturn(Top) /\ Top.moved) =>
          m_currentState = Ordinal(lastEntered))
  /\ [][CallStackOrder]_vars
  /\ [][Calling("process") =>
          stack'[Len(stack')].pre = IF lastEntered # NoState
                                    THEN Ordinal(lastEntered)
                                    ELSE m_currentState]_vars

\* S's handler called enterState<Y>() for another state Y and then
\* process(ev2); Y's handler for ev2 has run and the nested call is about to
\* return to S's handler
C13_Witness ==
  /\ Len(stack) = 3
  /\ stack[1].fn = "process"
  /\ stack[1].init
  /\ NestedProcess(2)
  /\ stack[2].st # stack[2].ent
  /\ AboutToReturn(Top)
  /\ Top.inv = <<Invocation(stack[2].ent, Top.ev)>>

\* the step is the return of the activation on top of the stack
Returns == stack # <<>> /\ stack' = Below

\* what holds of a call when it returns, and of the machine between calls
C14_Step ==
  /\ (Returns /\ Top.fn = "process") =>
       /\ Top.pc = "break"
       /\ Len(Top.inv) <= 1
       /\ \A k \in 1..Len(Top.inv) : Top.inv[k].ev = Top.ev
  /\ (Returns /\ Top.fn = "enterState") =>
       /\ Top.n = 2
       /\ lastEntered # NoState
       /\ Len(Top.inv) <= 1
  /\ stack = <<>> =>
       \/ stack' = <<>>
       \/ /\ Len(stack') = 1
          /\ stack'[1].fn \in {"process", "enterState"}
          /\ stack'[1].n = 0
          /\ stack'[1].inv = <<>>

\* a call made by the client on a machine on which it is defined: any
\* enterState, and a process once a state has been entered
DefinedCall ==
  /\ stack # <<>>
  /\ stack[1].fn = "enterState" \/ stack[1].init

\* C14: every call of process and every call of enterState returns to its
\* caller, all the calls nested in it included (handlers and hooks that
\* return being given); when it returns, process has dispatched the one
\* event it was passed at most once and enterState has made its one
\* transition, and nothing is left to run: between two calls of the client
\* the machine executes nothing.
C14_CallsComplete ==
  /\ DefinedCall ~> (stack = <<>>)
  /\ [][C14_Step]_vars

\* a process call of the client is about to return after its handler moved
\* the machine into a state with an enter hook
C14_Witness ==
  /\ Len(stack) = 1
  /\ AboutToReturn(Top)
  /\ Top.init
  /\ Len(Top.inv) = 1
  /\ Top.moved
  /\ lastEntered # NoState
  /\ hasEnter(prog, lastEntered)

\* the entries of the type list under instantiation
ArgSet == {tplArgs[i] : i \in 1..Len(tplArgs)}

\* number of entries of the type list that are the type T
Occurrences(T) == Cardinality({i \in 1..Len(tplArgs) : tplArgs[i] = T})

\* C15: a state machine is accepted iff its state set is non-empty, its
\* states are pairwise distinct and every state is a class type; of an
\* accepted machine, enterState<T> / getState<T> is accepted iff T is in the
\* state set, and a rejected one has no runtime effect: the index is only
\* ever written with the ordinal of a state of the set.
C15_MachineAcceptedIffValidStateSet ==
  /\ compiled.tpl = "StateMachine" =>
       (compiled.ok <=>
          /\ tplArgs # <<>>
          /\ \A i, j \in 1..Len(tplArgs) : i # j => tplArgs[i] # tplArgs[j]
          /\ \A i \in 1..Len(tplArgs) : tplArgs[i] \in ClassTypes)
  /\ compiled.tpl \in {"enterState", "getState"} =>
       /\ compiled.ok <=> tplElem \in ArgSet
       /\ ~compiled.ok => (lastEntered = NoState /\ m_currentState = Len(tplArgs))
  /\ lastEntered # NoState =>
       /\ lastEntered \in ArgSet
       /\ m_currentState < Len(tplArgs)
       /\ tplArgs[m_currentState + 1] = lastEntered

\* enterState of an accepted two-state machine was instantiated for a type
\* that is not one of its states, and rejected
C15_Witness ==
  /\ tplArgs = <<"OpenState", "CloseState">>
  /\ tplElem = "int"
  /\ compiled = Outcome("enterState", FALSE, 0)

\* C16: are_distinct_v of a type list is true iff every entry occurs in it
\* exactly once, count_in_list_v is the number of occurrences of Elem, and
\* elem_in_list_v<Elem, List...> is true iff Elem equals some entry of List;
\* <int,int,bool> and <int,bool,int> are not distinct, <int> and
\* <int,bool,double> are.
C16_TypeListPredicates ==
  /\ compiled.tpl = "are_distinct_v" =>
       /\ compiled.ok <=> \A T \in ArgSet : Occurrences(T) = 1
       /\ tplArgs \in {<<"int", "int", "bool">>, <<"int", "bool", "int">>} => ~compiled.ok
       /\ tplArgs \in {<<"int">>, <<"int", "bool", "double">>} => compiled.ok
  /\ compiled.tpl = "count_in_list_v" => compiled.num = Occurrences(tplElem)
  /\ compiled.tpl = "elem_in_list_v" =>
       /\ compiled.ok <=> tplElem \in ArgSet
       /\ (tplElem = "int" /\ tplArgs \in {<<"int", "bool">>, <<"int">>, <<"bool", "int">>})
            => compiled.ok
       /\ (tplElem = "double" /\ tplArgs = <<"int", "bool">>) => ~compiled.ok

\* are_distinct_v<int, bool, int> was evaluated to false: the two equal
\* entries are not next to one another
C16_Witness ==
  /\ tplArgs = <<"int", "bool", "int">>
  /\ compiled = Outcome("are_distinct_v", FALSE, 0)

\* the types of the events of machine p
EventTypes(p) == {e.type : e \in Events(p)}

\* what the case / table entry of index i is to do for an event of type E:
\* run the handler of the state at ordinal i if it has one, else nothing
EntryFor(i, E) ==
  IF has_handler_v(prog, StateAt(i), E) THEN StateAt(i) ELSE NoState

\* C17: for n <= 256 states process uses a switch of C cases labelled
\* 0..C-1 exactly once each, C the smallest of 4, 16, 64, 256 with n <= C;
\* case i < n dispatches to the state at ordinal i, case i >= n and the
\* default are unreachable; for n > 256 process uses a table of exactly n
\* entries, entry i the trampoline of the state at ordinal i when it has a
\* handler and null otherwise.  A process call takes the case / entry of
\* the index it reads.
C17_StrategyCoversEveryIndex ==
  LET n == s_nStates(prog)
      C == SwitchCases(n)
      labels == CaseLabels(C)
  IN  /\ (stack = <<>> /\ lastEntered = NoState /\ n <= 256) =>
           /\ C \in {4, 16, 64, 256}
           /\ n <= C
           /\ \A k \in {4, 16, 64, 256} : n <= k => C <= k
           /\ Len(labels) = C
           /\ {labels[k] : k \in 1..Len(labels)} = 0..(C - 1)
           /\ \A E \in EventTypes(prog) :
                /\ \A i \in 0..(n - 1) : SwitchTarget(prog, i, E) = EntryFor(i, E)
                /\ \A i \in n..C : SwitchTarget(prog, i, E) = "unreachable"
      /\ (stack = <<>> /\ lastEntered = NoState /\ n > 256) =>
           /\ C = 0
           /\ \A E \in EventTypes(prog) :
                /\ DOMAIN Table(prog, E) = 0..(n - 1)
                /\ \A i \in 0..(n - 1) : Table(prog, E)[i] = EntryFor(i, E)
      /\ \A f \in Frames :
           (f.fn = "process" /\ f.pc # "switch") =>
             /\ f.idx = f.pre
             /\ f.pc = "unreachable" => f.idx >= n
             /\ f.idx < n =>
                  f.inv = IF EntryFor(f.idx, f.ev.type) = NoState THEN <<>>
                          ELSE <<Invocation(EntryFor(f.idx, f.ev.type), f.ev)>>

\* a machine of 17 states, whose switch has 64 cases, was called with an
\* index never written that happens to be 17: process is in the unreachable
\* case 17
C17_Witness ==
  /\ s_nStates(prog) = 17
  /\ SwitchCases(s_nStates(prog)) = 64
  /\ stack # <<>>
  /\ Top.fn = "process"
  /\ Top.pc = "unreachable"
  /\ Top.idx = 17

\* an enterState<X>() call made while X was already the active state
SelfTransition(f) ==
  /\ f.fn = "enterState"
  /\ f.init
  /\ f.pre = Ordinal(f.st)

\* C18 as stated: enterState<X>() called while X is already the active
\* state invokes X's enter hook once and leaves the index at X's ordinal.
C18_SelfTransitionKeepsIndex ==
  (stack # <<>> /\ Returning(Top) /\ SelfTransition(Top) /\ hasEnter(prog, Top.st)) =>
    /\ Top.inv = <<Invocation(Top.st, NoEv)>>
    /\ m_currentState = Ordinal(Top.st)

\* enter hooks are called by enterState only, as the second step of the
\* activation, for its own target; an enterState call returns after exactly
\* one invocation of the hook of a target that has one
C18_Step ==
  /\ Calling("enter") =>
       /\ Top.fn = "enterState"
       /\ Top.n = 1
       /\ Top.inv = <<>>
       /\ stack'[Len(stack')].st = Top.st
  /\ (Returns /\ Top.fn = "enterState") =>
       Top.inv = IF hasEnter(prog, Top.st) THEN <<Invocation(Top.st, NoEv)>> ELSE <<>>

\* C18 amended: the enter hook runs on every enterState call, including a
\* self-transition: enterState<X>() called while X is already the active
\* state still invokes X's enter hook once, and leaves the index at X's
\* ordinal unless the hook itself makes a transition; every enterState<X>()
\* call invokes the hook exactly once, so k consecutive calls invoke it
\* exactly k times.
C18_HookOnEveryEnterState ==
  /\ []((stack # <<>> /\ Returning(Top) /\ SelfTransition(Top)) =>
          /\ hasEnter(prog, Top.st) => Top.inv = <<Invocation(Top.st, NoEv)>>
          /\ ~Top.moved => m_currentState = Ordinal(Top.st)
          /\ m_currentState = Ordinal(lastEntered))
  /\ [][C18_Step]_vars

\* the client called enterState<X>() while X, a state with an enter hook,
\* was active; the hook has run and the call is about to return in X
C18_Witness ==
  /\ Len(stack) = 1
  /\ Returning(Top)
  /\ SelfTransition(Top)
  /\ hasEnter(prog, Top.st)
  /\ Top.inv = <<Invocation(Top.st, NoEv)>>
  /\ ~Top.moved
  /\ m_currentState = Ordinal(Top.st)

\* the transitions of the lockable door: from index a to index b on event e,
\* the door's key being key (OPEN = 0, CLOSE = 1, LOCKED = 2)
DoorTransition(a, b, e, key) ==
  \/ a = 0 /\ b = 1 /\ e.type = "CloseEvent"
  \/ a = 1 /\ b = 0 /\ e.type = "OpenEvent"
  \/ a = 1 /\ b = 2 /\ e.type = "LockEvent" /\ e.key = key
  \/ a = 2 /\ b = 1 /\ e.type = "UnlockEvent" /\ e.key = key

\* a process call of the client on the door of example 2, made after a
\* state was entered
DoorEvent ==
  /\ prog = "ex2"
  /\ stack # <<>>
  /\ stack[1].fn = "process"
  /\ stack[1].init

\* C19: in the lockable door of example 2, whatever the door's key and the
\* events and keys processed once a state was entered, the only transitions
\* are OPEN->CLOSE on Close, CLOSE->OPEN on Open, CLOSE->LOCKED on Lock with
\* the door's key and LOCKED->CLOSE on Unlock with the door's key: LOCKED is
\* never entered or left with a wrong key, and the door never goes directly
\* between OPEN and LOCKED; any other event leaves the state as it is.
C19_LockableDoorTransitions ==
  /\ [][(DoorEvent /\ m_currentState' # m_currentState) =>
          DoorTransition(m_currentState, m_currentState', stack[1].ev, m_key)]_vars
  /\ []((DoorEvent /\ AboutToReturn(Top)) =>
          \/ DoorTransition(Top.pre, m_currentState, Top.ev, m_key)
          \/ /\ m_currentState = Top.pre
             /\ \A b \in 0..2 : ~DoorTransition(Top.pre, b, Top.ev, m_key))

\* a door whose key is 521 was closed and has just been locked by
\* Lock{521}
C19_Witness ==
  /\ DoorEvent
  /\ m_key = BadKey
  /\ AboutToReturn(Top)
  /\ Top.ev = [type |-> "LockEvent", key |-> BadKey]
  /\ Top.pre = 1
  /\ m_currentState = 2

\* the step is a write of activation Top into its state instance
Stores ==
  /\ stack # <<>>
  /\ Top.fn \in {"handle", "enter"}
  /\ Len(stack') = Len(stack)
  /\ stack'[Len(stack)].n = Top.n + 1

\* the state instance the activation on top of the stack was invoked on by
\* its caller: the state active when process was called, the target of
\* enterState
InstanceOfCaller ==
  LET caller == stack[Len(stack) - 1]
  IN  IF caller.fn = "enterState" THEN caller.st ELSE StateAt(caller.pre)

\* C20: the state instances are never reset by the engine: the data of S's
\* instance, as getState<S>() returns it, changes only when a handler or
\* hook of S itself writes it, and that handler or hook runs on the instance
\* of the state that was dispatched to / entered; the steps of enterState
\* and process leave every instance as it is, so data written persists when
\* S is left and entered again.
C20_StateInstancesPersist ==
  /\ [][\A S \in StateSet(prog) :
          getState(S)' # getState(S) =>
            /\ Stores
            /\ Top.st = S
            /\ HasData(prog, S)
            /\ stack[Len(stack) - 1].pre < s_nStates(prog) => S = InstanceOfCaller]_vars
  /\ [][(stack # <<>> /\ Top.fn \in {"enterState", "process"}) => m_states' = m_states]_vars
  /\ [][stack = <<>> => m_states' = m_states]_vars
  /\ [](\A i \in 2..Len(stack) :
          (stack[i].fn \in {"handle", "enter"} /\ stack[i - 1].pre < s_nStates(prog)) =>
            stack[i].st = IF stack[i - 1].fn = "enterState" THEN stack[i - 1].st
                          ELSE StateAt(stack[i - 1].pre))

\* StateB was entered, its enter hook wrote its data, and a nested event
\* made the machine leave StateB again: the data is still there when the
\* outer process call is about to return in StateA
C20_Witness ==
  /\ prog = "nest"
  /\ Len(stack) = 1
  /\ AboutToReturn(Top)
  /\ Top.init
  /\ Top.ev.type = "EvB"
  /\ Top.pre = 0
  /\ m_currentState = 0
  /\ getState("StateB") = 1

\* the machine right after construction, its index reading 0: the mappings
\* are fixed per machine, so they are compared once for each
Constructed == stack = <<>> /\ lastEntered = NoState /\ m_currentState = 0

\* the indices enterState writes for the states of the machine
IndexSet == {getStateIndex(prog, S) : S \in StateSet(prog)}

\* C21: getStateIndex (type to index, used by enterState) and tuple_element
\* (index to type, used by processFromIndex) are mutually inverse bijections
\* between the state set and 0..n-1: dispatching on getStateIndex<S>()
\* resolves to S, every index i < n is the index of the state it resolves
\* to, and distinct states get distinct indices; so a process call made
\* after enterState<S>() switches on an index that resolves to S.
C21_IndexAndTypeMappingsInverse ==
  [](/\ Constructed =>
        /\ \A S \in StateSet(prog) :
             /\ getStateIndex(prog, S) \in 0..(s_nStates(prog) - 1)
             /\ tuple_element_t(prog, getStateIndex(prog, S)) = S
        /\ \A i \in 0..(s_nStates(prog) - 1) :
             /\ tuple_element_t(prog, i) \in StateSet(prog)
             /\ getStateIndex(prog, tuple_element_t(prog, i)) = i
        /\ IndexSet = 0..(s_nStates(prog) - 1)
        /\ Cardinality(IndexSet) = Cardinality(StateSet(prog))
     /\ (stack # <<>> /\ Top.fn = "process" /\ Top.pc = "switch" /\ lastEntered # NoState) =>
        /\ m_currentState < s_nStates(prog)
        /\ tuple_element_t(prog, m_currentState) = lastEntered)

\* a machine of 257 states has entered its last state and is called with an
\* event: process is about to dispatch on index 256
C21_Witness ==
  /\ s_nStates(prog) = 257
  /\ stack # <<>>
  /\ Top.fn = "process"
  /\ Top.pc = "switch"
  /\ lastEntered = States(prog)[257]
  /\ m_currentState = 256

====
